---- MODULE Spec2Model ----
(***************************************************************************)
(* The product catalogue service of fast_ecomm: the FastAPI handlers of    *)
(* main.py, the pydantic models of schema/product.py and the JSON file     *)
(* store of services/serve_product.py.                                     *)
(*                                                                         *)
(* Spec      the handlers run one request at a time (each action is one    *)
(*           whole request: validation, load, change, save, response).    *)
(* SpecMerge change_product called directly with sparse dictionaries.      *)
(* SpecConc  create requests of several clients interleaved at their file  *)
(*           reads and writes.                                             *)
(***************************************************************************)
EXTENDS Integers, Sequences, FiniteSets, TLC

VARIABLES
    products,   \* the list stored in products.json
    file_state, \* "json": the file holds the list; "truncated": a writer has
                \* opened it with 'w' and not written yet; "corrupt": not JSON
    uuidCount,  \* number of uuid4() calls made so far
    last,       \* the last request served and its response
    client      \* per client: position and locals of its create request (SpecConc)

vars == <<products, file_state, uuidCount, last, client>>

---------------------------------------------------------------------------
(* Bounds of the model.                                                    *)

MaxCreates == 2     \* uuid4() calls (create requests that pass validation)
NumClients == 2     \* concurrent clients of SpecConc

---------------------------------------------------------------------------
(* JSON values, as json.load and model_dump(mode="json") produce them.     *)
(* A value carries its Python type, so that `value is None` and            *)
(* isinstance(value, dict) are decided by the value alone.                 *)

None == [none |-> TRUE]
Num(n) == [num |-> n]
Str(s) == [str |-> s]
Obj(d) == [obj |-> d]
List(s) == [list |-> s]

IsDict(v) == DOMAIN v = {"obj"}
IsNum(v) == DOMAIN v = {"num"}

\* dict.get(key): None when the key is missing
DictGet(d, key) == IF key \in DOMAIN d THEN d[key] ELSE None

\* d[key] = value
DictSet(d, key, value) ==
    [k \in DOMAIN d \cup {key} |-> IF k = key THEN value ELSE d[k]]

\* a.update(b)
DictUpdate(a, b) ==
    [k \in DOMAIN a \cup DOMAIN b |-> IF k \in DOMAIN b THEN b[k] ELSE a[k]]

\* the n-th UUID string (all of length 36 in the program)
UUID(n) == Str("uuid-" \o ToString(n))

\* uuid4(): a value never produced before
uuid4 == UUID(uuidCount + 1)

\* an identifier a client made up; uuid4() never returns it
ClientUUID == UUID(0)

\* identifiers a client can send: its own, or one the server has issued
KnownUUIDs == {ClientUUID} \cup {UUID(n) : n \in 1..uuidCount}

\* datetime.utcnow().isoformat() + "Z"
utcnow == Str("utcnow")

---------------------------------------------------------------------------
(* schema/product.py.  Of the fields of a product the model keeps id, sku, *)
(* price, discount_percent, stock, dimensions_cm, seller and created_at,   *)
(* and the two computed fields.  price and discounted_price are held in    *)
(* hundredths (price 20.0 is Num(2000)); the other numbers in units.       *)

\* round(a / b) for b > 0, ties to the even neighbour as Python's round does
RoundDiv(a, b) ==
    LET q == a \div b
        r == a % b
    IN  IF 2 * r < b THEN q
        ELSE IF 2 * r > b THEN q + 1
        ELSE IF q % 2 = 0 THEN q ELSE q + 1

\* Dimensions_cm: three floats, each >= 0
Dimensions_cm_validate(v) ==
    /\ IsDict(v)
    /\ {"length", "width", "height"} \subseteq DOMAIN v.obj
    /\ \A k \in {"length", "width", "height"} : IsNum(v.obj[k]) /\ v.obj[k].num >= 0

\* Seller: name and email (seller_id and website are left out of the model)
Seller_validate(v) ==
    /\ IsDict(v)
    /\ {"name", "email"} \subseteq DOMAIN v.obj

\* check_discount without the upper limit (mutant)
check_discount_no_upper(discount_percent) ==
    TRUE

\* the model validator check_discount of Product and of Update_Product
check_discount(discount_percent) ==
    discount_percent # None =>
        (0 <= discount_percent.num /\ discount_percent.num <= 100)

\* the computed field discounted_price; price in hundredths, so the result
\* rounded to 2 decimals is an integer number of hundredths
discounted_price(price, discount_percent) ==
    IF discount_percent # None
    THEN Num(RoundDiv(price.num * 100 - discount_percent.num * price.num, 100))
    ELSE None

\* the computed field volume_cm3
volume_cm3(dimensions_cm) ==
    Num(dimensions_cm.obj["length"].num * dimensions_cm.obj["width"].num
        * dimensions_cm.obj["height"].num)

\* Product: default_factory=datetime takes no arguments, so a body without
\* created_at makes validation raise TypeError
Product_raises(body) ==
    "created_at" \notin DOMAIN body

\* Product accepts the request body
Product_validate(body) ==
    /\ {"id", "sku", "price", "stock", "dimensions_cm", "seller"} \subseteq DOMAIN body
    /\ IsNum(body["price"]) /\ body["price"].num >= 0
    /\ IsNum(body["stock"]) /\ body["stock"].num >= 0
    /\ "discount_percent" \in DOMAIN body =>
          /\ IsNum(body["discount_percent"])
          /\ body["discount_percent"].num >= 0
    /\ Dimensions_cm_validate(body["dimensions_cm"])
    /\ Seller_validate(body["seller"])
    /\ check_discount(DictGet(body, "discount_percent"))

\* Product.model_dump(mode="json"): every field, the defaults and the
\* computed fields included
Product_model_dump(body) ==
    [id |-> body["id"],
     sku |-> body["sku"],
     price |-> body["price"],
     discount_percent |-> DictGet(body, "discount_percent"),
     stock |-> body["stock"],
     dimensions_cm |-> body["dimensions_cm"],
     seller |-> body["seller"],
     created_at |-> body["created_at"],
     discounted_price |-> discounted_price(body["price"], DictGet(body, "discount_percent")),
     volume_cm3 |-> volume_cm3(body["dimensions_cm"])]

\* the fields of Update_Product with sku among them (mutant)
Update_Product_fields_with_sku ==
    {"id", "sku", "price", "discount_percent", "stock", "dimensions_cm", "seller", "created_at"}

\* the fields of Update_Product: sku is commented out, and pydantic ignores
\* the keys of a body that name no field
Update_Product_fields ==
    {"id", "price", "discount_percent", "stock", "dimensions_cm", "seller", "created_at"}

\* Update_Product: default_factory=datetime again
Update_Product_raises(body) ==
    "created_at" \notin DOMAIN body

\* Update_Product accepts the request body: id is a required UUID; price,
\* stock, dimensions_cm and seller are required keys that may be null
Update_Product_validate(body) ==
    /\ {"id", "price", "stock", "dimensions_cm", "seller"} \subseteq DOMAIN body
    /\ body["id"] # None
    /\ body["price"] # None => (IsNum(body["price"]) /\ body["price"].num >= 0)
    /\ body["stock"] # None => (IsNum(body["stock"]) /\ body["stock"].num >= 0)
    /\ DictGet(body, "discount_percent") # None =>
          /\ IsNum(body["discount_percent"])
          /\ body["discount_percent"].num >= 0
    /\ body["dimensions_cm"] # None => Dimensions_cm_validate(body["dimensions_cm"])
    /\ body["seller"] # None => Seller_validate(body["seller"])
    /\ check_discount(DictGet(body, "discount_percent"))

\* the computed fields of Update_Product read self.price and
\* self.dimensions_cm, which may be None here: model_dump then raises
\* (TypeError for the product with None, AttributeError for None.length)
Update_Product_dump_raises(body) ==
    \/ body["dimensions_cm"] = None
    \/ (DictGet(body, "discount_percent") # None /\ body["price"] = None)

\* Update_Product.model_dump(mode="json", exclude_unset=True): the fields the
\* body sets, and the computed fields (exclude_unset does not drop them)
Update_Product_model_dump(body) ==
    LET set == DOMAIN body \cap Update_Product_fields
    IN  [k \in set \cup {"discounted_price", "volume_cm3"} |->
            IF k = "discounted_price"
            THEN discounted_price(body["price"], DictGet(body, "discount_percent"))
            ELSE IF k = "volume_cm3"
            THEN volume_cm3(body["dimensions_cm"])
            ELSE body[k]]

---------------------------------------------------------------------------
(* services/serve_product.py, as functions of the list read from the file. *)

\* add_product with the check left out (mutant)
sku_exists_never(ps, product) ==
    FALSE

\* add_product: any(p["sku"] == product["sku"] for p in products)
sku_exists(ps, product) ==
    \E i \in 1..Len(ps) : ps[i]["sku"] = product["sku"]

\* add_product putting the new product first (mutant)
add_product_first(ps, product) ==
    <<product>> \o ps

\* add_product: products.append(product), the list then saved
add_product(ps, product) ==
    Append(ps, product)

\* index of the first product of the list with this id, 0 if there is none
index_of(ps, id) ==
    IF \E i \in 1..Len(ps) : ps[i]["id"] = id
    THEN CHOOSE i \in 1..Len(ps) :
            /\ ps[i]["id"] = id
            /\ \A j \in 1..(i - 1) : ps[j]["id"] # id
    ELSE 0

\* products.pop(idx)
pop(ps, idx) ==
    [i \in 1..(Len(ps) - 1) |-> IF i < idx THEN ps[i] ELSE ps[i + 1]]

\* the loop of change_product assigning a nested value like any other (mutant)
merge_update_no_nesting(product, update_data) ==
    LET assigned == {k \in DOMAIN update_data : update_data[k] # None}
    IN  [k \in DOMAIN product \cup assigned |->
            IF k \notin assigned THEN product[k] ELSE update_data[k]]

\* the loop of change_product without the `continue` on None (mutant)
merge_update_assigning_none(product, update_data) ==
    [k \in DOMAIN product \cup DOMAIN update_data |->
        IF k \notin DOMAIN update_data THEN product[k]
        ELSE IF IsDict(update_data[k]) /\ IsDict(DictGet(product, k))
        THEN Obj(DictUpdate(product[k].obj, update_data[k].obj))
        ELSE update_data[k]]

\* the loop over update_data.items() of change_product: a None value is
\* skipped, a dict over a dict is merged with dict.update, anything else is
\* assigned.  Each key is treated alone, so the order of the items is immaterial.
merge_update(product, update_data) ==
    LET assigned == {k \in DOMAIN update_data : update_data[k] # None}
    IN  [k \in DOMAIN product \cup assigned |->
            IF k \notin assigned THEN product[k]
            ELSE IF IsDict(update_data[k]) /\ IsDict(DictGet(product, k))
            THEN Obj(DictUpdate(product[k].obj, update_data[k].obj))
            ELSE update_data[k]]

\* change_product raises ValueError: the loop over the products returns in
\* its first iteration, so the raise is reached only with an empty list
change_product_raises(ps, id) ==
    Len(ps) = 0

\* the list change_product saves: the first product of the list is the one
\* updated, the id argument is not compared with anything
change_product(ps, id, update_data) ==
    [ps EXCEPT ![1] = merge_update(ps[1], update_data)]

---------------------------------------------------------------------------
(* Requests.                                                               *)

SKUs == {Str("SKU-0001"), Str("SKU-0002")}

DimensionsA == Obj([length |-> Num(1), width |-> Num(2), height |-> Num(3)])
SellerA == Obj([name |-> Str("A"), email |-> Str("a@example.com")])
SellerB == Obj([name |-> Str("B"), email |-> Str("b@shop.com")])

\* with(d, key, values): the dictionaries d with key set to one of the values
With(ds, key, values) ==
    {DictSet(d, key, v) : d \in ds, v \in values}

\* bodies of POST /products: with and without a discount, in and out of
\* [0,100], and the body the dashboard sends (no id, no created_at)
CreateBodies ==
    LET base == {[id |-> ClientUUID, sku |-> sku, price |-> Num(2000), stock |-> Num(10),
                  dimensions_cm |-> DimensionsA, seller |-> SellerA,
                  created_at |-> Str("2024-01-01T00:00:00Z")] : sku \in SKUs}
    IN  base \cup With(base, "discount_percent", {Num(10), Num(150)})
             \cup {[sku |-> sku, price |-> Num(2000), stock |-> Num(10)] : sku \in SKUs}

\* bodies of PUT and PATCH /products/{product_id}: a body that repeats the
\* id of the path and sets nothing but the dimensions, the same with one
\* more thing set, and the body the dashboard sends
UpdateBodies(product_id) ==
    LET base == {[id |-> product_id, price |-> None, stock |-> None,
                  dimensions_cm |-> DimensionsA, seller |-> None, created_at |-> None]}
        priced == With(base, "price", {Num(5000)})
    IN  base \cup priced
             \cup With(base, "id", {ClientUUID})
             \cup With(base \cup priced, "discount_percent", {Num(10)})
             \cup With(priced, "discount_percent", {Num(150)})
             \cup With(base, "dimensions_cm", {None})
             \cup With(base, "seller", {SellerB})
             \cup With(base, "sku", SKUs)
             \cup {[price |-> Num(5000)]}

\* the clients of SpecConc, and a client that has sent nothing yet
Clients == 1..NumClients

Idle == [pc |-> "idle", product_dict |-> None, products |-> <<>>, status |-> 0]

\* the response of a request
Response(op, id, body, status, content) ==
    [op |-> op, id |-> id, payload |-> body, status |-> status, body |-> content]

---------------------------------------------------------------------------
(* main.py: one action per handler, the whole request.                     *)

Init ==
    /\ products = <<>>
    /\ file_state = "json"
    /\ uuidCount = 0
    /\ last = Response("none", None, None, 0, None)
    /\ client = [c \in Clients |-> Idle]

\* POST /products
create_product(body) ==
    /\ UNCHANGED <<file_state, client>>
    /\ IF Product_raises(body)
       THEN /\ last' = Response("create", None, Obj(body), 500, None)
            /\ UNCHANGED <<products, uuidCount>>
       ELSE IF ~Product_validate(body)
       THEN /\ last' = Response("create", None, Obj(body), 422, None)
            /\ UNCHANGED <<products, uuidCount>>
       ELSE LET product_dict == [Product_model_dump(body) EXCEPT
                                    !["id"] = uuid4, !["created_at"] = utcnow]
            IN  /\ uuidCount < MaxCreates
                /\ uuidCount' = uuidCount + 1
                /\ IF sku_exists(products, product_dict)
                   THEN /\ products' = products
                        /\ last' = Response("create", None, Obj(body), 400, None)
                   ELSE /\ products' = add_product(products, product_dict)
                        /\ last' = Response("create", None, Obj(body), 201,
                                            Obj(Product_model_dump(body)))

\* the defaults of the limit and offset parameters of list_products
default_limit == 10
default_offset == 0

\* s with x put behind the elements that sort before it or equal it
insert_by_price(s, x, reverse) ==
    LET before == {i \in 1..Len(s) :
                      IF reverse THEN s[i]["price"].num >= x["price"].num
                                 ELSE s[i]["price"].num <= x["price"].num}
        k == Cardinality(before)
    IN  SubSeq(s, 1, k) \o <<x>> \o SubSeq(s, k + 1, Len(s))

\* products.sort(key=price, reverse=reverse) of the first n products: the
\* sort is stable, with reverse too
RECURSIVE sort_by_price(_, _, _)
sort_by_price(ps, n, reverse) ==
    IF n = 0 THEN <<>>
    ELSE insert_by_price(sort_by_price(ps, n - 1, reverse), ps[n], reverse)

\* products[offset : offset + limit]
slice(ps, offset, limit) ==
    SubSeq(ps, offset + 1, IF offset + limit < Len(ps) THEN offset + limit ELSE Len(ps))

\* GET /products without a name filter and with the default limit and
\* offset: the list load_products returns, sorted by price if asked
list_products(sort, order) ==
    /\ UNCHANGED <<products, file_state, uuidCount, client>>
    /\ LET sorted == IF sort THEN sort_by_price(products, Len(products), order = "desc")
                     ELSE products
           page == slice(sorted, default_offset, default_limit)
       IN  last' = Response("list", None,
                            Obj([sort_by_price |-> [bool |-> sort], order |-> Str(order)]),
                            200,
                            Obj([total |-> Num(Len(sorted)),
                                 items |-> List([i \in 1..Len(page) |-> Obj(page[i])])]))

\* the query parameters of the list requests
ListQueries == {<<FALSE, "asc">>, <<TRUE, "asc">>, <<TRUE, "desc">>}

\* GET /products/{product_id}
get_product_by_id(product_id) ==
    /\ UNCHANGED <<products, file_state, uuidCount, client>>
    /\ LET idx == index_of(products, product_id)
       IN  IF idx # 0
           THEN last' = Response("get", product_id, None, 200, Obj(products[idx]))
           ELSE last' = Response("get", product_id, None, 404, None)

\* DELETE /products/{product_id}: remove_product returns None when no product
\* has the id, and the handler returns that as the response
delete_product(product_id) ==
    /\ UNCHANGED <<file_state, uuidCount, client>>
    /\ LET idx == index_of(products, product_id)
       IN  IF idx # 0
           THEN /\ products' = pop(products, idx)
                /\ last' = Response("delete", product_id, None, 200,
                                    Obj([message |-> Str("Product deleted succesfully"),
                                         product |-> Obj(products[idx])]))
           ELSE /\ products' = products
                /\ last' = Response("delete", product_id, None, 200, None)

\* the body shared by update_product and patch_product
put_or_patch(op, product_id, body) ==
    /\ UNCHANGED <<file_state, uuidCount, client>>
    /\ IF Update_Product_raises(body)
       THEN /\ last' = Response(op, product_id, Obj(body), 500, None)
            /\ products' = products
       ELSE IF ~Update_Product_validate(body)
       THEN /\ last' = Response(op, product_id, Obj(body), 422, None)
            /\ products' = products
       ELSE IF Update_Product_dump_raises(body)
       THEN /\ last' = Response(op, product_id, Obj(body), 500, None)
            /\ products' = products
       ELSE IF change_product_raises(products, product_id)
       THEN /\ last' = Response(op, product_id, Obj(body), 404, None)
            /\ products' = products
       ELSE LET saved == change_product(products, product_id,
                                        Update_Product_model_dump(body))
            IN  /\ products' = saved
                /\ last' = Response(op, product_id, Obj(body), 200, Obj(saved[1]))

\* PUT /products/{product_id}
update_product(product_id, body) ==
    put_or_patch("put", product_id, body)

\* PATCH /products/{product_id}
patch_product(product_id, body) ==
    put_or_patch("patch", product_id, body)

Next ==
    \/ \E body \in CreateBodies : create_product(body)
    \/ \E q \in ListQueries : list_products(q[1], q[2])
    \/ \E id \in KnownUUIDs : get_product_by_id(id)
    \/ \E id \in KnownUUIDs : delete_product(id)
    \/ \E id \in KnownUUIDs : \E body \in UpdateBodies(id) : update_product(id, body)
    \/ \E id \in KnownUUIDs : \E body \in UpdateBodies(id) : patch_product(id, body)

Spec == Init /\ [][Next]_vars

---------------------------------------------------------------------------
(* Claims checked under Spec.                                              *)

IsUpdate(r) == r.op \in {"put", "patch"}

\* the request body was accepted by its model and serialised without error
CreateAccepted(r) ==
    /\ r.op = "create"
    /\ r.status \notin {422, 500}

UpdateAccepted(r) ==
    /\ IsUpdate(r)
    /\ r.status \notin {422, 500}

HasId(ps, id) == \E i \in 1..Len(ps) : ps[i]["id"] = id

\* C1: no two stored records have the same SKU, after any sequence of
\* create, update (PUT/PATCH) and delete requests from the empty collection.
C1_SkuUnique ==
    \A i, j \in 1..Len(products) :
        i # j => products[i]["sku"] # products[j]["sku"]

\* C1 witness: two records are stored and an update whose body names the SKU
\* of the second one has been applied.
C1_Witness ==
    /\ Len(products) = 2
    /\ IsUpdate(last) /\ last.status = 200
    /\ "sku" \in DOMAIN last.payload.obj
    /\ last.payload.obj["sku"] = products[2]["sku"]

\* C2: a create whose SKU a stored record already has is answered 400 (the
\* ValueError of add_product) and leaves the stored list as it was.
C2_DuplicateSkuRejected ==
    [][(/\ CreateAccepted(last')
        /\ \E i \in 1..Len(products) :
               products[i]["sku"] = last'.payload.obj["sku"])
       => (last'.status = 400 /\ products' = products)]_vars

\* C2 witness: a create was answered 400 and the collection is not empty.
C2_Witness ==
    /\ last.op = "create" /\ last.status = 400
    /\ Len(products) >= 1
    /\ \E i \in 1..Len(products) : products[i]["sku"] = last.payload.obj["sku"]

\* C3 (as claimed): an update whose id no stored record has is answered 404
\* and leaves every stored record as it was.
C3_UpdateUnknownIdNotFound ==
    [][(UpdateAccepted(last') /\ ~HasId(products, last'.id))
       => (last'.status = 404 /\ products' = products)]_vars

\* C4 (as claimed): a delete whose id no stored record has is answered 404
\* and leaves the collection as it was; a delete of a stored id returns the
\* deleted record and removes exactly that record.
C4_DeleteContract ==
    [][last'.op = "delete" =>
        IF HasId(products, last'.id)
        THEN \E i \in 1..Len(products) :
                /\ products[i]["id"] = last'.id
                /\ products' = pop(products, i)
                /\ last'.status = 200
                /\ last'.body.obj["product"] = Obj(products[i])
        ELSE last'.status = 404 /\ products' = products]_vars

\* C5 (as claimed): no update changes the id of a stored record.
C5_IdNeverChanges ==
    [][IsUpdate(last') =>
        /\ Len(products') = Len(products)
        /\ \A i \in 1..Len(products) : products'[i]["id"] = products[i]["id"]]_vars

\* the discount_percent a record would have after body is merged into it
MergedDiscount(record, body) ==
    IF DictGet(body, "discount_percent") # None
    THEN body["discount_percent"]
    ELSE record["discount_percent"]

DiscountInRange(d) == d = None \/ (0 <= d.num /\ d.num <= 100)

\* C6: an update that fails changes nothing, and an update whose merge into
\* a stored record would leave discount_percent outside [0,100] fails.
C6_NoPartialUpdate ==
    [][IsUpdate(last') =>
        /\ last'.status # 200 => products' = products
        /\ (\E i \in 1..Len(products) :
               ~DiscountInRange(MergedDiscount(products[i], last'.payload.obj)))
           => (last'.status # 200 /\ products' = products)]_vars

\* C6 witness: an update carrying discount_percent 150 was refused while a
\* record was stored.
C6_Witness ==
    /\ IsUpdate(last) /\ last.status = 422
    /\ Len(products) >= 1
    /\ DictGet(last.payload.obj, "discount_percent") = Num(150)

ComputedFields == {"discounted_price", "volume_cm3"}

C9_CreateThenGet ==
    (last.op = "create" /\ last.status = 201) =>
        LET idx == index_of(products, last.body.obj["id"])
        IN  /\ idx # 0
            /\ \A k \in DOMAIN last.payload.obj \ {"id", "created_at"} :
                  products[idx][k] = last.payload.obj[k]

\* the records a response carries: the one of a get, the items of a list
Returned(r) ==
    IF r.op = "get" /\ r.status = 200 THEN {r.body.obj}
    ELSE IF r.op = "list" /\ r.status = 200
    THEN {r.body.obj["items"].list[i].obj : i \in 1..Len(r.body.obj["items"].list)}
    ELSE {}

\* price - price * discount_percent / 100 to 2 decimals, in hundredths
ExpectedDiscountedPrice(record) ==
    IF record["discount_percent"] = None THEN None
    ELSE Num(RoundDiv(record["price"].num * (100 - record["discount_percent"].num), 100))

\* C11 (as claimed): the discounted_price of every record a get or a list
\* returns is the one computed from that record's price and
\* discount_percent, and is absent (null) when discount_percent is not set.
C11_DerivedOnRead ==
    \A record \in Returned(last) :
        DictGet(record, "discounted_price") = ExpectedDiscountedPrice(record)

\* the SKUs of a list of products, in the order of the list
SkuOrder(ps) == [i \in 1..Len(ps) |-> ps[i]["sku"]]

\* C12: a create that succeeds appends its record behind the stored ones, a
\* delete takes one record out, and no request changes the order of the
\* records that stay (a record being known by its SKU); a list that is not
\* asked to sort returns the records in that stored order.
C12_CreationOrder ==
    [][/\ (last'.op = "create" /\ last'.status = 201) =>
             /\ Len(products') = Len(products) + 1
             /\ SubSeq(SkuOrder(products'), 1, Len(products)) = SkuOrder(products)
             /\ products'[Len(products')]["sku"] = last'.payload.obj["sku"]
       /\ (last'.op = "delete") =>
             \/ SkuOrder(products') = SkuOrder(products)
             \/ \E i \in 1..Len(products) :
                   SkuOrder(products') = SkuOrder(pop(products, i))
       /\ ~(last'.op = "create" /\ last'.status = 201) /\ last'.op # "delete" =>
             SkuOrder(products') = SkuOrder(products)
       /\ (last'.op = "list" /\ ~last'.payload.obj["sort_by_price"].bool) =>
             /\ Len(last'.body.obj["items"].list) = Len(products)
             /\ \A i \in 1..Len(products) :
                   last'.body.obj["items"].list[i] = Obj(products[i])]_vars

\* C12 witness: two records are stored, the first one dearer than the second
\* (an update has raised its price), and an unsorted list has returned them
\* first, second.
C12_Witness ==
    /\ last.op = "list" /\ ~last.payload.obj["sort_by_price"].bool
    /\ Len(products) = 2
    /\ products[1]["price"].num > products[2]["price"].num
    /\ last.body.obj["items"].list = <<Obj(products[1]), Obj(products[2])>>

\* C13 (as claimed): after a delete that removed a record, a get of the
\* same id finds nothing.
C13_DeleteThenGet ==
    (last.op = "delete" /\ last.body # None) =>
        index_of(products, last.id) = 0

\* C14: the discount_percent of every stored record is null or in [0,100],
\* and a create or an update whose body carries a discount_percent outside
\* [0,100] is answered 422.
C14_DiscountInRange ==
    /\ \A i \in 1..Len(products) : DiscountInRange(products[i]["discount_percent"])
    /\ (/\ last.op \in {"create", "put", "patch"}
        /\ "created_at" \in DOMAIN last.payload.obj
        /\ ~DiscountInRange(DictGet(last.payload.obj, "discount_percent")))
       => last.status = 422

\* C14 witness: a create carrying discount_percent 150 was answered 422
\* while a record with a discount is stored.
C14_Witness ==
    /\ last.op = "create" /\ last.status = 422
    /\ DictGet(last.payload.obj, "discount_percent") = Num(150)
    /\ \E i \in 1..Len(products) : products[i]["discount_percent"] = Num(10)

\* C15 (as claimed): an update whose id a stored record has leaves every
\* record with another id as it was.
C15_OnlyTargetChanges ==
    [][(UpdateAccepted(last') /\ HasId(products, last'.id)) =>
        /\ Len(products') = Len(products)
        /\ \A i \in 1..Len(products) :
              products[i]["id"] # last'.id => products'[i] = products[i]]_vars

\* C16 (as claimed): no two stored records have the same id.
C16_IdUnique ==
    \A i, j \in 1..Len(products) :
        i # j => products[i]["id"] # products[j]["id"]

---------------------------------------------------------------------------
(* SpecMerge: change_product called with the dictionaries its loop is      *)
(* written for, sparse ones and partial nested ones included.  (Through    *)
(* PUT and PATCH a nested value is a whole Seller or Dimensions_cm.)       *)

EmptyDict == [k \in {} |-> None]

\* the dictionaries ds, and those with key set to one of the values too
Opt(ds, key, values) ==
    ds \cup With(ds, key, values)

\* update_data of the direct calls
MergeUpdates ==
    Opt(Opt(Opt(Opt({EmptyDict},
        "price", {None, Num(5000)}),
        "seller", {None, Str("nobody"), Obj([name |-> Str("B")]),
                   Obj([name |-> None]), Obj([email |-> Str("b@shop.com")]), SellerB}),
        "dimensions_cm", {Obj([height |-> Num(9)])}),
        "brand", {Str("Acme")})

\* the stored record of the direct calls: one product, as a create stores it
InitMerge ==
    /\ uuidCount = 1
    /\ file_state = "json"
    /\ \E body \in {b \in CreateBodies : ~Product_raises(b) /\ Product_validate(b)} :
          products = <<[Product_model_dump(body) EXCEPT
                           !["id"] = UUID(1), !["created_at"] = utcnow]>>
    /\ last = Response("none", None, None, 0, None)
    /\ client = [c \in Clients |-> Idle]

\* change_product(id, update_data), load and save included
change_product_call(id, update_data) ==
    /\ UNCHANGED <<file_state, uuidCount, client>>
    /\ IF change_product_raises(products, id)
       THEN /\ products' = products
            /\ last' = Response("change_product", id, Obj(update_data), 404, None)
       ELSE LET saved == change_product(products, id, update_data)
            IN  /\ products' = saved
                /\ last' = Response("change_product", id, Obj(update_data), 200,
                                    Obj(saved[1]))

NextMerge ==
    \E update_data \in MergeUpdates : change_product_call(UUID(1), update_data)

SpecMerge == InitMerge /\ [][NextMerge]_vars

\* C7: for each key the update carries with a non-null value: when that
\* value and the stored value are both nested objects, the result has the
\* nested fields of the update and, for every nested field the update does
\* not mention, the stored one; otherwise the result is the update's value.
C7_NestedMerge ==
    [][(last'.op = "change_product" /\ last'.status = 200) =>
        LET U == last'.payload.obj
            R == products[1]
            M == products'[1]
        IN  \A k \in DOMAIN U :
               U[k] # None =>
                  /\ k \in DOMAIN M
                  /\ IF IsDict(U[k]) /\ k \in DOMAIN R /\ IsDict(R[k])
                     THEN /\ IsDict(M[k])
                          /\ DOMAIN M[k].obj = DOMAIN R[k].obj \cup DOMAIN U[k].obj
                          /\ \A f \in DOMAIN U[k].obj : M[k].obj[f] = U[k].obj[f]
                          /\ \A f \in DOMAIN R[k].obj \ DOMAIN U[k].obj :
                                M[k].obj[f] = R[k].obj[f]
                     ELSE M[k] = U[k]]_vars

\* C7 witness: the stored seller was {name: A, email: a@example.com}, the
\* update carried seller {name: B}, and the stored seller is now
\* {name: B, email: a@example.com}.
C7_Witness ==
    /\ last.op = "change_product" /\ last.status = 200
    /\ DictGet(last.payload.obj, "seller") = Obj([name |-> Str("B")])
    /\ products[1]["seller"] = Obj([name |-> Str("B"), email |-> Str("a@example.com")])

---------------------------------------------------------------------------
(* SpecConc: POST /products from several clients at once.  FastAPI runs    *)
(* the handlers, plain functions, on a pool of threads, and                *)
(* serve_product.py takes no lock: a request reads the file                *)
(* (load_products), works on its own list, opens the file for writing      *)
(* (which empties it) and writes the list (save_products).                 *)

\* bodies of the concurrent creates: valid ones, differing in SKU
ConcBodies ==
    {[id |-> ClientUUID, sku |-> sku, price |-> Num(2000), stock |-> Num(10),
      dimensions_cm |-> DimensionsA, seller |-> SellerA,
      created_at |-> Str("2024-01-01T00:00:00Z")] : sku \in SKUs}

\* create_product up to the end of load_products: the body is dumped, id
\* and created_at are set, the file is read.  json.load of a file that is
\* empty or not JSON raises JSONDecodeError, a ValueError, which the handler
\* turns into 400.
request_load(c, body) ==
    /\ client[c].pc = "idle"
    /\ uuidCount' = uuidCount + 1
    /\ UNCHANGED <<products, file_state, last>>
    /\ LET product_dict == [Product_model_dump(body) EXCEPT
                               !["id"] = uuid4, !["created_at"] = utcnow]
       IN  IF file_state # "json"
           THEN client' = [client EXCEPT ![c] =
                    [pc |-> "done", product_dict |-> Obj(product_dict),
                     products |-> <<>>, status |-> 400]]
           ELSE client' = [client EXCEPT ![c] =
                    [pc |-> "loaded", product_dict |-> Obj(product_dict),
                     products |-> products, status |-> 0]]

\* add_product from the SKU check to the open() of save_products: the check
\* and the append work on the list read earlier; open(DATA_FILE, 'w') empties
\* the file
request_check(c) ==
    /\ client[c].pc = "loaded"
    /\ UNCHANGED <<uuidCount, last>>
    /\ IF sku_exists(client[c].products, client[c].product_dict.obj)
       THEN /\ client' = [client EXCEPT ![c].pc = "done", ![c].status = 400]
            /\ UNCHANGED <<products, file_state>>
       ELSE /\ client' = [client EXCEPT
                   ![c].pc = "writing",
                   ![c].products = add_product(client[c].products,
                                               client[c].product_dict.obj)]
            /\ products' = <<>>
            /\ file_state' = "truncated"

\* json.dump and the close of the file, then the 201 response.  The text is
\* written from offset 0: over a file still empty it is the file's content;
\* over what another writer has written meanwhile it is the content only if
\* it is at least as long, else the other text's tail remains behind it.
request_save(c) ==
    /\ client[c].pc = "writing"
    /\ UNCHANGED <<uuidCount, last>>
    /\ client' = [client EXCEPT ![c].pc = "done", ![c].status = 201]
    /\ \/ /\ products' = client[c].products
          /\ file_state' = "json"
       \/ /\ file_state # "truncated"
          /\ products' = <<>>
          /\ file_state' = "corrupt"

NextConc ==
    \/ \E c \in Clients : \E body \in ConcBodies : request_load(c, body)
    \/ \E c \in Clients : request_check(c)
    \/ \E c \in Clients : request_save(c)

SpecConc == Init /\ [][NextConc]_vars

\* C10 (as claimed): when two concurrent creates with the same SKU have both
\* been answered, one got 201 and the other 400, and the stored collection
\* holds exactly one record with that SKU.
C10_OneWinner ==
    \A a, b \in Clients :
        (/\ a # b
         /\ client[a].pc = "done" /\ client[b].pc = "done"
         /\ client[a].product_dict.obj["sku"] = client[b].product_dict.obj["sku"])
        => /\ {client[a].status, client[b].status} = {201, 400}
           /\ file_state = "json"
           /\ Cardinality({i \in 1..Len(products) :
                  products[i]["sku"] = client[a].product_dict.obj["sku"]}) = 1

====
